---------------------------- MODULE Spec2Model ----------------------------
(* Model of the two secret providers of pkg/providers:                     *)
(*   k8s        - the cluster-store provider  (pkg/providers/k8s/k8s.go)   *)
(*   gcpsecrets - the cloud-manager provider                               *)
(*                (pkg/providers/gcpsecrets/gcpsecrets.go)                 *)
(* Lookup paths are sequences of one-character strings so that             *)
(* strings.Split / strings.SplitN are computed and not assumed.            *)
EXTENDS Naturals, Integers, Sequences, FiniteSets, TLC

VARIABLES
    env,      \* the process environment: KUBECONFIG, HOME, the files that exist
    kcfg,     \* the configuration the k8s provider was constructed from
    kprov,    \* the k8s provider: KubeConfigPath, KubeContext (and what New printed)
    kres,     \* what getKubeConfig returned to New: (path, err)
    klast,    \* the k8s lookup that is returning to its caller, or NoK8sCall
    gcfg,     \* the configuration the gcpsecrets provider was constructed from
    gprov,    \* the gcpsecrets provider: version, optional, fallback
    glast,    \* the gcpsecrets lookup that is returning, or NoGcpCall
    ghist,    \* results of earlier GetString calls on the gcpsecrets provider
    crashed   \* the process has panicked

kvars == <<env, kcfg, kprov, kres, klast>>
gvars == <<gcfg, gprov, glast, ghist, crashed>>
vars == <<env, kcfg, kprov, kres, klast, gcfg, gprov, glast, ghist, crashed>>

-----------------------------------------------------------------------------
(* Bounds and input alphabets                                              *)

MaxLen == 5

MaxKeyLen == 3

Chars == {"a", "/"}

Paths == UNION {[1..n -> Chars] : n \in 0..MaxLen}

\* the nil error
Nil == <<>>

-----------------------------------------------------------------------------
(* strings.Split / strings.SplitN with separator "/"                       *)

HasSep(s) == \E i \in 1..Len(s) : s[i] = "/"

FirstSep(s) == CHOOSE i \in 1..Len(s) : s[i] = "/" /\ \A j \in 1..(i-1) : s[j] # "/"

RECURSIVE SplitN(_, _)
SplitN(s, n) ==
    IF n = 0 THEN <<>>
    ELSE IF n = 1 \/ ~HasSep(s) THEN <<s>>
    ELSE <<SubSeq(s, 1, FirstSep(s) - 1)>>
             \o SplitN(SubSeq(s, FirstSep(s) + 1, Len(s)), n - 1)

\* mutant: the split stops at the third segment
Split_AtMostThree(s) == SplitN(s, 3)

Split(s) == SplitN(s, -1)

-----------------------------------------------------------------------------
(* api.StaticConfig: a map of the options that are present                 *)

cfgString(cfg, name) == IF name \in DOMAIN cfg THEN cfg[name] ELSE ""

cfgExists(cfg, name) == name \in DOMAIN cfg

CfgsOver(names, vals) == UNION {[d -> vals] : d \in SUBSET names}

-----------------------------------------------------------------------------
(* Cluster-store provider (k8s)                                            *)

OptPath == "/opt/kubeconfig"
EnvPath == "/env/kubeconfig"
HomeDir == "/home/u"

\* an option that is present has a value: String() does not tell an absent
\* option from an empty one
K8sCfgs == {c \in CfgsOver({"kubeConfigPath", "kubeContext"}, {OptPath, "ctx"}) :
               /\ cfgString(c, "kubeConfigPath") \in {"", OptPath}
               /\ cfgString(c, "kubeContext") \in {"", "ctx"}}

\* os.UserHomeDir: $HOME, an error when it is not set
UserHomeDir(e) == IF e.HOME = "" THEN [dir |-> "", err |-> <<"HOME is not defined">>]
                  ELSE [dir |-> e.HOME, err |-> Nil]

\* os.Stat(path) succeeds
StatOk(e, path) == path \in e.fs

Envs == {e \in [KUBECONFIG : {"", EnvPath}, HOME : {"", HomeDir},
                fs : SUBSET {OptPath, EnvPath, HomeDir \o "/.kube/config"}] : TRUE}

getKubeConfig(cfg, e) ==
    IF cfgString(cfg, "kubeConfigPath") # "" /\ ~StatOk(e, cfgString(cfg, "kubeConfigPath"))
    THEN [path |-> cfgString(cfg, "kubeConfigPath"),
          err |-> <<"kubeConfigPath URI parameter is set but path does not exist",
                    cfgString(cfg, "kubeConfigPath")>>]
    ELSE IF e.KUBECONFIG # "" /\ ~StatOk(e, e.KUBECONFIG)
    THEN [path |-> e.KUBECONFIG,
          err |-> <<"KUBECONFIG environment variable is set but path does not exist",
                    e.KUBECONFIG>>]
    ELSE IF UserHomeDir(e).err # Nil
    THEN [path |-> "",
          err |-> <<"An error occurred getting the user's home directory">>]
    ELSE IF StatOk(e, UserHomeDir(e).dir \o "/.kube/config")
    THEN [path |-> UserHomeDir(e).dir \o "/.kube/config", err |-> Nil]
    ELSE [path |-> "",
          err |-> <<"No path was found", UserHomeDir(e).dir \o "/.kube/config">>]

getKubeContext(cfg) ==
    IF cfgString(cfg, "kubeContext") # "" THEN cfgString(cfg, "kubeContext") ELSE ""

\* mutant: the path getKubeConfig returned is kept although it failed
K8sNew_KeepPath(cfg, e) ==
    [KubeConfigPath |-> getKubeConfig(cfg, e).path,
     KubeContext |-> getKubeContext(cfg),
     printed |-> getKubeConfig(cfg, e).err]

\* New: the provider, and what it printed
K8sNew(cfg, e) ==
    IF getKubeConfig(cfg, e).err # Nil
    THEN [KubeConfigPath |-> "", KubeContext |-> "",
          printed |-> getKubeConfig(cfg, e).err]
    ELSE [KubeConfigPath |-> getKubeConfig(cfg, e).path,
          KubeContext |-> getKubeContext(cfg),
          printed |-> Nil]


\* []byte: nil, or a slice with content
NilBytes == [isNil |-> TRUE, data |-> ""]

Bytes(d) == [isNil |-> FALSE, data |-> d]

\* string(b) for a []byte b
GoString(b) == IF b.isNil THEN "" ELSE b.data

\* keys a stored secret object may hold
SecretKeys == {<<"a">>, <<"a", "a">>}

SecretValues == {Bytes("v")}

\* what the cluster answers to one getSecret: the stage that fails, or the
\* secret's data
K8sBackends ==
    {[stage |-> s, data |-> <<>>] : s \in {"config", "client", "fetch"}}
        \cup {[stage |-> "ok", data |-> d] : d \in CfgsOver(SecretKeys, SecretValues)}

NotContacted == [stage |-> "none", data |-> <<>>]

getSecret(namespace, secretName, kubeConfigPath, kubeContext, b) ==
    IF b.stage = "config"
    THEN [data |-> <<>>, note |-> kubeContext = "",
          err |-> <<"Unable to build Kubeconfig from vals configuration", "cause">>]
    ELSE IF b.stage = "client"
    THEN [data |-> <<>>, note |-> kubeContext = "",
          err |-> <<"Unable to create the Kubernetes client", "cause">>]
    ELSE IF b.stage = "fetch"
    THEN [data |-> <<>>, note |-> kubeContext = "",
          err |-> <<"Unable to get the secret from Kubernetes", "cause">>]
    ELSE [data |-> b.data, note |-> kubeContext = "", err |-> Nil]

\* the error GetString returns for a key that the secret does not hold
KeyNotExist(key, namespace, secretName) ==
    <<"Key does not exist in", key, namespace, secretName>>

K8sGetString(p, path, b) ==
    LET splits == Split(path)
    IN  IF Len(splits) # 3
        THEN [val |-> "", err |-> <<"Invalid path", path>>, calls |-> <<>>,
              logged |-> <<>>]
        ELSE IF p.KubeConfigPath = ""
        THEN [val |-> "", err |-> <<"No Kubeconfig path was found">>, calls |-> <<>>,
              logged |-> <<>>]
        ELSE LET call == [namespace |-> splits[1], secretName |-> splits[2],
                          kubeConfigPath |-> p.KubeConfigPath,
                          kubeContext |-> p.KubeContext]
                 r == getSecret(splits[1], splits[2], p.KubeConfigPath, p.KubeContext, b)
                 exists == splits[3] \in DOMAIN r.data
             IN  IF r.err # Nil \/ ~exists
                 THEN [val |-> "", err |-> KeyNotExist(splits[3], splits[1], splits[2]),
                       calls |-> <<call>>, logged |-> <<>>]
                 ELSE [val |-> GoString(r.data[splits[3]]), err |-> Nil,
                       calls |-> <<call>>,
                       logged |-> <<splits[1], splits[2], splits[3], p.KubeContext>>]

K8sGetStringMap(p, path) ==
    [val |-> "", err |-> <<"This provider does not support values from URI fragments">>,
     calls |-> <<>>, logged |-> <<>>]

NoK8sCall == [op |-> "none", path |-> <<>>, backend |-> NotContacted,
              val |-> "", err |-> Nil, calls |-> <<>>, logged |-> <<>>]

K8sCallRecord(op, path, b, r) ==
    [op |-> op, path |-> path,
     backend |-> IF r.calls = <<>> THEN NotContacted ELSE b,
     val |-> r.val, err |-> r.err, calls |-> r.calls, logged |-> r.logged]

-----------------------------------------------------------------------------
(* Actions of the cluster-store provider                                   *)

\* k8s.New(l, cfg): (re)construct the provider from a configuration
K8sNewAct ==
    \E c \in K8sCfgs :
        /\ klast = NoK8sCall
        /\ kcfg' = c
        /\ kres' = getKubeConfig(c, env)
        /\ kprov' = K8sNew(c, env)
        /\ klast' = NoK8sCall
        /\ UNCHANGED <<env>>
        /\ UNCHANGED gvars

\* one lookup: the caller is not inside another lookup on this goroutine
K8sGetStringAct ==
    \E path \in Paths, b \in K8sBackends :
        /\ klast = NoK8sCall
        /\ klast' = K8sCallRecord("GetString", path, b, K8sGetString(kprov, path, b))
        /\ UNCHANGED <<env, kcfg, kprov, kres>>
        /\ UNCHANGED gvars

K8sGetStringMapAct ==
    \E path \in Paths :
        /\ klast = NoK8sCall
        /\ klast' = K8sCallRecord("GetStringMap", path, NotContacted,
                                  K8sGetStringMap(kprov, path))
        /\ UNCHANGED <<env, kcfg, kprov, kres>>
        /\ UNCHANGED gvars

\* the lookup has returned to its caller, which goes on
K8sReturnAct ==
    /\ klast # NoK8sCall
    /\ klast' = NoK8sCall
    /\ UNCHANGED <<env, kcfg, kprov, kres>>
    /\ UNCHANGED gvars

-----------------------------------------------------------------------------
(* Cloud-manager provider (gcpsecrets)                                     *)

GcpKeys == UNION {[1..n -> Chars] : n \in 0..MaxKeyLen}

GcpCfgs == {c \in CfgsOver({"version", "optional", "fallback_value"},
                           {"", "x", "2", "true", "false", "yes"}) :
               /\ cfgString(c, "version") \in {"", "2"}
               /\ cfgExists(c, "version") => c["version"] # ""
               /\ cfgString(c, "optional") \in {"", "true", "false", "yes"}
               /\ cfgExists(c, "optional") => c["optional"] # ""
               /\ cfgString(c, "fallback_value") \in {"", "x"}}

\* strconv.ParseBool
ParseBool(str) ==
    IF str \in {"1", "t", "T", "TRUE", "true", "True"}
    THEN [val |-> TRUE, err |-> Nil]
    ELSE IF str \in {"0", "f", "F", "FALSE", "false", "False"}
    THEN [val |-> FALSE, err |-> Nil]
    ELSE [val |-> FALSE, err |-> <<"strconv.ParseBool: invalid syntax", str>>]

\* mutant: the fallback is taken only when it is not empty
GcpNew_NonEmptyFallback(cfg) ==
    [version  |-> IF cfgString(cfg, "version") = "" THEN "latest"
                  ELSE cfgString(cfg, "version"),
     optional |-> IF cfgString(cfg, "optional") # ""
                     /\ ParseBool(cfgString(cfg, "optional")).err = Nil
                  THEN ParseBool(cfgString(cfg, "optional")).val
                  ELSE FALSE,
     fallback |-> IF cfgString(cfg, "fallback_value") # ""
                  THEN <<cfgString(cfg, "fallback_value")>>
                  ELSE <<>>]

\* New(cfg); the *string fallback is <<>> for nil and <<s>> for a pointer to s
GcpNew(cfg) ==
    [version  |-> IF cfgString(cfg, "version") = "" THEN "latest"
                  ELSE cfgString(cfg, "version"),
     optional |-> IF cfgString(cfg, "optional") # ""
                     /\ ParseBool(cfgString(cfg, "optional")).err = Nil
                  THEN ParseBool(cfgString(cfg, "optional")).val
                  ELSE FALSE,
     fallback |-> IF cfgExists(cfg, "fallback_value")
                  THEN <<cfgString(cfg, "fallback_value")>>
                  ELSE <<>>]

\* what the outside answers to one lookup: sm.NewClient fails ("client"),
\* AccessSecretVersion fails ("access"), or the stored payload is returned
Payloads == {NilBytes, Bytes(""), Bytes("s"), Bytes("k: v")}

GcpBackends ==
    {[stage |-> s, payload |-> NilBytes] : s \in {"client", "access"}}
        \cup {[stage |-> "ok", payload |-> d] : d \in Payloads}

\* fmt.Sprintf("projects/%s/secrets/%s/versions/%s", ...)
RequestName(project, secret, version) ==
    <<"projects/">> \o project \o <<"/secrets/">> \o secret \o <<"/versions/", version>>

\* mutant: the fallback is looked at before the optional flag
MissingValuePolicy_FallbackFirst(p, name) ==
    IF p.fallback # <<>>
    THEN [bytes |-> Bytes(p.fallback[1]), err |-> Nil, panic |-> FALSE,
          requests |-> <<name>>, stderr |-> <<>>]
    ELSE IF p.optional
    THEN [bytes |-> NilBytes, err |-> Nil, panic |-> FALSE,
          requests |-> <<name>>, stderr |-> <<>>]
    ELSE [bytes |-> NilBytes, err |-> <<"failed to get secret", "rpc error">>,
          panic |-> FALSE, requests |-> <<name>>, stderr |-> <<>>]

\* what getSecretBytes returns when AccessSecretVersion(name) has failed
MissingValuePolicy(p, name) ==
    IF p.optional
    THEN [bytes |-> NilBytes, err |-> Nil, panic |-> FALSE,
          requests |-> <<name>>, stderr |-> <<>>]
    ELSE IF p.fallback # <<>>
    THEN [bytes |-> Bytes(p.fallback[1]), err |-> Nil, panic |-> FALSE,
          requests |-> <<name>>, stderr |-> <<>>]
    ELSE [bytes |-> NilBytes, err |-> <<"failed to get secret", "rpc error">>,
          panic |-> FALSE, requests |-> <<name>>, stderr |-> <<>>]

\* the error of sm.NewClient, returned as it is
ClientError == <<"could not create client">>

\* mutant: a failed sm.NewClient goes through the missing-value policy too
getSecretBytes_ClientUnderPolicy(p, key, b) ==
    IF b.stage = "client"
    THEN IF p.optional
         THEN [bytes |-> NilBytes, err |-> Nil, panic |-> FALSE,
               requests |-> <<>>, stderr |-> <<"failed to connect">>]
         ELSE IF p.fallback # <<>>
         THEN [bytes |-> Bytes(p.fallback[1]), err |-> Nil, panic |-> FALSE,
               requests |-> <<>>, stderr |-> <<"failed to connect">>]
         ELSE [bytes |-> NilBytes, err |-> ClientError, panic |-> FALSE,
               requests |-> <<>>, stderr |-> <<"failed to connect">>]
    ELSE LET splitKey == SplitN(key, 2)
         IN  IF Len(splitKey) < 2
             THEN [bytes |-> NilBytes, err |-> Nil, panic |-> TRUE,
                   requests |-> <<>>, stderr |-> <<>>]
             ELSE LET name == RequestName(splitKey[1], splitKey[2], p.version)
                  IN  IF b.stage = "access"
                      THEN MissingValuePolicy(p, name)
                      ELSE [bytes |-> b.payload, err |-> Nil, panic |-> FALSE,
                            requests |-> <<name>>, stderr |-> <<>>]

getSecretBytes(p, key, b) ==
    IF b.stage = "client"
    THEN [bytes |-> NilBytes, err |-> ClientError, panic |-> FALSE,
          requests |-> <<>>, stderr |-> <<"failed to connect">>]
    ELSE LET splitKey == SplitN(key, 2)
         IN  IF Len(splitKey) < 2
             THEN \* splitKey[1] in the source: index out of range [1] with length 1
                  [bytes |-> NilBytes, err |-> Nil, panic |-> TRUE,
                   requests |-> <<>>, stderr |-> <<>>]
             ELSE LET name == RequestName(splitKey[1], splitKey[2], p.version)
                  IN  IF b.stage = "access"
                      THEN MissingValuePolicy(p, name)
                      ELSE [bytes |-> b.payload, err |-> Nil, panic |-> FALSE,
                            requests |-> <<name>>, stderr |-> <<>>]

\* the map[string]interface{} that is nil
NilMap == [isNil |-> TRUE, m |-> <<>>]

\* mutant: a nil payload is reported as an error
GcpGetString_NilIsError(p, key, b) ==
    LET r == getSecretBytes(p, key, b)
    IN  IF r.panic
        THEN [val |-> "", smap |-> NilMap, err |-> Nil, panic |-> TRUE,
              requests |-> r.requests]
        ELSE IF r.err # Nil \/ r.bytes.isNil
        THEN [val |-> "", smap |-> NilMap,
              err |-> IF r.err # Nil THEN r.err ELSE <<"secret is absent">>,
              panic |-> FALSE, requests |-> r.requests]
        ELSE [val |-> GoString(r.bytes), smap |-> NilMap, err |-> Nil, panic |-> FALSE,
              requests |-> r.requests]

GcpGetString(p, key, b) ==
    LET r == getSecretBytes(p, key, b)
    IN  IF r.panic
        THEN [val |-> "", smap |-> NilMap, err |-> Nil, panic |-> TRUE,
              requests |-> r.requests]
        ELSE IF r.err # Nil
        THEN [val |-> "", smap |-> NilMap, err |-> r.err, panic |-> FALSE,
              requests |-> r.requests]
        ELSE [val |-> GoString(r.bytes), smap |-> NilMap, err |-> Nil, panic |-> FALSE,
              requests |-> r.requests]

\* yaml.Unmarshal([]byte(str), secretMap) on the documents of Payloads and the
\* fallback values: the filled map, or the error
YamlUnmarshal(str) ==
    IF str = "" THEN [m |-> <<>>, err |-> Nil]
    ELSE IF str = "k: v" THEN [m |-> [k \in {"k"} |-> "v"], err |-> Nil]
    ELSE [m |-> <<>>, err |-> <<"yaml: unmarshal errors: cannot unmarshal !!str into map">>]

GcpGetStringMap(p, key, b) ==
    LET g == GcpGetString(p, key, b)
    IN  IF g.panic
        THEN [val |-> "", smap |-> NilMap, err |-> Nil, panic |-> TRUE,
              requests |-> g.requests]
        ELSE IF g.err # Nil
        THEN [val |-> "", smap |-> NilMap, err |-> g.err, panic |-> FALSE,
              requests |-> g.requests]
        ELSE IF YamlUnmarshal(g.val).err # Nil
        THEN [val |-> "", smap |-> NilMap,
              err |-> <<"failed to unmarshal secret", YamlUnmarshal(g.val).err>>,
              panic |-> FALSE, requests |-> g.requests]
        ELSE [val |-> "", smap |-> [isNil |-> FALSE, m |-> YamlUnmarshal(g.val).m],
              err |-> Nil, panic |-> FALSE, requests |-> g.requests]

NoGcpCall == [op |-> "none", key |-> <<>>, backend |-> [stage |-> "none", payload |-> NilBytes],
              val |-> "", smap |-> NilMap, err |-> Nil, panic |-> FALSE, requests |-> <<>>]

GcpCallRecord(op, key, b, r) ==
    [op |-> op, key |-> key, backend |-> b, val |-> r.val, smap |-> r.smap,
     err |-> r.err, panic |-> r.panic, requests |-> r.requests]

\* what the caller of one lookup saw, without the lookup's key
Outcome(b, r) == [backend |-> b, val |-> r.val, err |-> r.err]

\* the lookups the history keeps: the GetString calls the backend failed, and
\* those that fetched an empty secret
Kept(op, b) ==
    op = "GetString" /\ (b.stage \in {"client", "access"} \/ GoString(b.payload) = "")

-----------------------------------------------------------------------------
(* Actions of the cloud-manager provider                                   *)

\* gcpsecrets.New(cfg): (re)construct the provider
GcpNewAct ==
    /\ ~crashed
    /\ glast = NoGcpCall
    /\ \E c \in GcpCfgs :
        /\ gcfg' = c
        /\ gprov' = GcpNew(c)
        /\ glast' = NoGcpCall
        /\ ghist' = {}
        /\ UNCHANGED crashed
        /\ UNCHANGED kvars

\* mutant: a lookup that substituted the fallback drops it from the provider
GcpLookup_ClearsFallback(op, key, b, r) ==
    /\ glast = NoGcpCall
    /\ glast' = GcpCallRecord(op, key, b, r)
    /\ crashed' = r.panic
    /\ ghist' = IF ~r.panic /\ Kept(op, b) THEN ghist \cup {Outcome(b, r)} ELSE ghist
    /\ gprov' = IF b.stage = "access" /\ ~r.panic
                THEN [gprov EXCEPT !.fallback = <<>>] ELSE gprov
    /\ UNCHANGED <<gcfg>>
    /\ UNCHANGED kvars

\* one lookup of the provider: its result goes to the caller, the provider's
\* fields are not assigned
GcpLookup(op, key, b, r) ==
    /\ glast = NoGcpCall
    /\ glast' = GcpCallRecord(op, key, b, r)
    /\ crashed' = r.panic
    /\ ghist' = IF ~r.panic /\ Kept(op, b) THEN ghist \cup {Outcome(b, r)} ELSE ghist
    /\ UNCHANGED <<gcfg, gprov>>
    /\ UNCHANGED kvars

GcpGetStringAct ==
    /\ ~crashed
    /\ \E key \in GcpKeys, b \in GcpBackends :
        GcpLookup("GetString", key, b, GcpGetString(gprov, key, b))

GcpGetStringMapAct ==
    /\ ~crashed
    /\ \E key \in GcpKeys, b \in GcpBackends :
        GcpLookup("GetStringMap", key, b, GcpGetStringMap(gprov, key, b))

\* the lookup has returned to its caller, which goes on; a panic has no return
GcpReturnAct ==
    /\ ~crashed
    /\ glast # NoGcpCall
    /\ glast' = NoGcpCall
    /\ UNCHANGED <<gcfg, gprov, ghist, crashed>>
    /\ UNCHANGED kvars

-----------------------------------------------------------------------------
(* Specifications                                                          *)

InitK8s ==
    /\ env \in Envs
    /\ kcfg \in K8sCfgs
    /\ kres = getKubeConfig(kcfg, env)
    /\ kprov = K8sNew(kcfg, env)
    /\ klast = NoK8sCall

InitGcp ==
    /\ gcfg \in GcpCfgs
    /\ gprov = GcpNew(gcfg)
    /\ glast = NoGcpCall
    /\ ghist = {}
    /\ crashed = FALSE

\* the cluster-store provider alone; the cloud-manager side stays as constructed
InitK == InitK8s /\ gcfg = <<>> /\ gprov = GcpNew(<<>>) /\ glast = NoGcpCall
             /\ ghist = {} /\ crashed = FALSE

NextK == K8sNewAct \/ K8sGetStringAct \/ K8sGetStringMapAct \/ K8sReturnAct

SpecK8s == InitK /\ [][NextK]_vars

\* the cloud-manager provider alone
InitG == InitGcp /\ env = [KUBECONFIG |-> "", HOME |-> HomeDir, fs |-> {}]
             /\ kcfg = <<>> /\ kres = getKubeConfig(<<>>, env)
             /\ kprov = K8sNew(<<>>, env) /\ klast = NoK8sCall

NextG == GcpNewAct \/ GcpGetStringAct \/ GcpGetStringMapAct \/ GcpReturnAct

SpecGcp == InitG /\ [][NextG]_vars

-----------------------------------------------------------------------------
(* Properties of the cluster-store provider, checked under SpecK8s         *)

\* the explicit option of the configuration the provider was built from
ExplicitPath == cfgString(kcfg, "kubeConfigPath")

\* C1: credential resolution is first-match-wins: with the explicit option
\* set the outcome is that path when it exists and an error otherwise; with
\* it unset and KUBECONFIG set the outcome is the KUBECONFIG path when it
\* exists and an error otherwise.
C1_FirstMatchWins ==
    /\ ExplicitPath # "" =>
          IF StatOk(env, ExplicitPath)
          THEN kres.err = Nil /\ kres.path = ExplicitPath
          ELSE kres.err # Nil
    /\ (ExplicitPath = "" /\ env.KUBECONFIG # "") =>
          IF StatOk(env, env.KUBECONFIG)
          THEN kres.err = Nil /\ kres.path = env.KUBECONFIG
          ELSE kres.err # Nil

\* the '/' positions of the path of the last lookup, and the three segments
\* they delimit when there are two of them
Slashes == {i \in 1..Len(klast.path) : klast.path[i] = "/"}

FirstSlash == CHOOSE i \in Slashes : \A j \in Slashes : i <= j

LastSlash == CHOOSE i \in Slashes : \A j \in Slashes : j <= i

PathNamespace == SubSeq(klast.path, 1, FirstSlash - 1)

PathSecretName == SubSeq(klast.path, FirstSlash + 1, LastSlash - 1)

PathKey == SubSeq(klast.path, LastSlash + 1, Len(klast.path))

BackendFailed == klast.backend.stage \in {"config", "client", "fetch"}

\* C2: a failure of getSecret (config-build, client-construction or fetch)
\* is returned by GetString as an error other than the one it returns, for
\* the same path, when the secret was fetched and does not hold the key.
C2_BackendFailureDistinct ==
    (klast.op = "GetString" /\ BackendFailed) =>
        /\ klast.err # Nil
        /\ klast.err # K8sGetString(kprov, klast.path, [stage |-> "ok", data |-> <<>>]).err

\* C7: a path of three segments ns/name/key is fetched at (ns, name) and
\* looked up at key; a path of any other segment count fails with no call
\* of getSecret, whatever the credential path.
C7_ParsedCoordinates ==
    klast.op = "GetString" =>
        IF Cardinality(Slashes) # 2
        THEN klast.err # Nil /\ klast.calls = <<>> /\ klast.val = ""
        ELSE kprov.KubeConfigPath # "" =>
                /\ klast.calls = <<[namespace |-> PathNamespace,
                                    secretName |-> PathSecretName,
                                    kubeConfigPath |-> kprov.KubeConfigPath,
                                    kubeContext |-> kprov.KubeContext]>>
                /\ klast.backend.stage = "ok" =>
                      IF PathKey \in DOMAIN klast.backend.data
                      THEN /\ klast.err = Nil
                           /\ klast.val = GoString(klast.backend.data[PathKey])
                      ELSE klast.err = KeyNotExist(PathKey, PathNamespace, PathSecretName)

\* C7 happens: namespace, name and key differ and the key is found
C7_Witness ==
    /\ klast.op = "GetString"
    /\ klast.path = <<"a", "a", "/", "/", "a">>
    /\ klast.backend.stage = "ok"
    /\ klast.err = Nil
    /\ klast.val = "v"
    /\ klast.calls # <<>>
    /\ klast.calls[1].namespace = <<"a", "a">>
    /\ klast.calls[1].secretName = <<>>

\* C8: when credential resolution failed at construction, the provider
\* holds no credential path, and every GetString on it fails without a call
\* of getSecret, with the 'no Kubeconfig path' error for a well-formed path.
C8_UnusableUntilReconstructed ==
    kres.err # Nil =>
        /\ kprov.KubeConfigPath = ""
        /\ kprov.printed = kres.err
        /\ klast.op = "GetString" =>
              /\ klast.err # Nil
              /\ klast.calls = <<>>
              /\ Cardinality(Slashes) = 2 =>
                    klast.err = <<"No Kubeconfig path was found">>

\* C8 happens: resolution failed on an explicit path that does not exist,
\* and a well-formed lookup has been refused
C8_Witness ==
    /\ kres.err # Nil
    /\ kres.path = OptPath
    /\ klast.op = "GetString"
    /\ klast.path = <<"a", "/", "a", "/", "a">>
    /\ klast.err = <<"No Kubeconfig path was found">>

-----------------------------------------------------------------------------
(* Properties of the cloud-manager provider, checked under SpecGcp         *)

\* C3: every lookup returns to its caller, and a key without '/' is an
\* error of the lookup: no crash, no request, no value.
C3_MalformedKeyIsAnError ==
    glast.op # "none" =>
        /\ ~glast.panic
        /\ ~crashed
        /\ ~HasSep(glast.key) =>
              glast.err # Nil /\ glast.requests = <<>>

\* the access request of the last lookup was sent and has failed
AccessFailed == glast.backend.stage = "access" /\ glast.requests # <<>>

\* C4: with optional=true a GetString whose fetch fails returns "" and no
\* error, with or without a fallback_value: the fallback is not returned.
C4_OptionalWins ==
    (glast.op = "GetString" /\ cfgString(gcfg, "optional") = "true" /\ AccessFailed) =>
        glast.val = "" /\ glast.err = Nil

C4_Witness ==
    /\ glast.op = "GetString"
    /\ cfgString(gcfg, "optional") = "true"
    /\ cfgExists(gcfg, "fallback_value")
    /\ gcfg["fallback_value"] = "x"
    /\ AccessFailed
    /\ glast.val = ""
    /\ glast.err = Nil

\* C5: without optional, a GetString whose fetch fails returns the value of
\* the fallback_value option and no error whenever the option is present,
\* the empty value included, and the wrapped fetch error when it is absent.
C5_FallbackByPresence ==
    (glast.op = "GetString" /\ ~gprov.optional /\ AccessFailed) =>
        IF cfgExists(gcfg, "fallback_value")
        THEN glast.val = gcfg["fallback_value"] /\ glast.err = Nil
        ELSE glast.err = <<"failed to get secret", "rpc error">> /\ glast.val = ""

C5_Witness ==
    /\ glast.op = "GetString"
    /\ ~gprov.optional
    /\ cfgExists(gcfg, "fallback_value")
    /\ gcfg["fallback_value"] = ""
    /\ AccessFailed
    /\ glast.val = ""
    /\ glast.err = Nil

\* the outcome the missing-value policy of provider p gives a GetString
PolicyOutcome(p) ==
    IF p.optional THEN [val |-> "", err |-> Nil]
    ELSE IF p.fallback # <<>> THEN [val |-> p.fallback[1], err |-> Nil]
    ELSE [val |-> "", err |-> <<"failed to get secret", "rpc error">>]

\* C6 as stated: every backend communication error of a GetString, a failed
\* client construction as well as a failed access request, gets the
\* missing-value policy.
C6_EveryBackendErrorUnderPolicy ==
    (glast.op = "GetString" /\ ~glast.panic
        /\ glast.backend.stage \in {"client", "access"}) =>
        /\ glast.val = PolicyOutcome(gprov).val
        /\ (glast.err = Nil) = (PolicyOutcome(gprov).err = Nil)

\* C6 amended: a failed access request gets the missing-value policy; a
\* failed client construction is returned as its own error, without a
\* request, whatever optional and fallback are.
C6_PolicyOnAccessFailureOnly ==
    glast.op = "GetString" =>
        /\ AccessFailed =>
              glast.val = PolicyOutcome(gprov).val /\ glast.err = PolicyOutcome(gprov).err
        /\ glast.backend.stage = "client" =>
              glast.err = ClientError /\ glast.val = "" /\ glast.requests = <<>>

C6_Witness ==
    /\ glast.op = "GetString"
    /\ gprov.optional
    /\ gprov.fallback = <<"x">>
    /\ glast.backend.stage = "client"
    /\ glast.err = ClientError

BackendFailures == {h \in ghist : h.backend.stage \in {"client", "access"}}

AccessFailures == {h \in ghist : h.backend.stage = "access"}

ClientFailures == {h \in ghist : h.backend.stage = "client"}

EmptyFetches == {h \in ghist : h.backend.stage = "ok"}

\* C9 as stated: lookups leave the provider as constructed, and all the
\* lookups of one provider that the backend failed end the same way.
C9_OnePolicyPerInstance ==
    /\ gprov = GcpNew(gcfg)
    /\ \A h1, h2 \in BackendFailures :
          h1.val = h2.val /\ (h1.err = Nil) = (h2.err = Nil)

\* C9 amended: lookups leave the provider as constructed; all the GetString
\* calls of one provider whose access request failed end the same way, the
\* one its policy gives; those whose client construction failed end with
\* that error.
C9_OnePolicyPerAccessFailure ==
    /\ gprov = GcpNew(gcfg)
    /\ \A h \in AccessFailures :
          h.val = PolicyOutcome(gprov).val /\ h.err = PolicyOutcome(gprov).err
    /\ \A h \in ClientFailures : h.val = "" /\ h.err = ClientError

C9_Witness ==
    /\ gprov.fallback = <<"x">>
    /\ ~gprov.optional
    /\ \E h \in AccessFailures : h.val = "x" /\ h.err = Nil
    /\ \E h \in ClientFailures : h.err # Nil
    /\ glast.op = "GetStringMap"

\* C10 as stated: for an optional provider, a GetString whose fetch failed
\* and one that fetched the empty secret do not return the same pair.
C10_SilenceDistinguishable ==
    gprov.optional =>
        \A h1 \in AccessFailures, h2 \in EmptyFetches :
            <<h1.val, h1.err>> # <<h2.val, h2.err>>

\* C10 amended: for an optional provider, a GetString whose fetch failed
\* returns ("", nil), the pair that a fetch of the empty secret returns;
\* it differs from the result of fetching any secret that is not empty.
C10_SilenceEqualsEmpty ==
    gprov.optional =>
        /\ \A h \in AccessFailures \cup EmptyFetches : h.val = "" /\ h.err = Nil
        /\ (glast.op = "GetString" /\ glast.backend.stage = "ok" /\ ~glast.panic
               /\ GoString(glast.backend.payload) # "") => glast.val # ""

C10_Witness ==
    /\ gprov.optional
    /\ \E h1 \in AccessFailures, h2 \in EmptyFetches :
          /\ ~h2.backend.payload.isNil
          /\ <<h1.val, h1.err>> = <<h2.val, h2.err>>
    /\ \E h \in EmptyFetches : h.backend.payload.isNil

=============================================================================
